---- MODULE Spec2Model ----
(***************************************************************************)
(* Quiz builder frontend: the quiz creation page (pages/create.tsx).       *)
(*                                                                         *)
(* The form state held by react-hook-form is the draft (title and the      *)
(* ordered list of questions).  The handlers of the page are the actions.  *)
(* Strings are sequences of one-character strings so that trim() is a      *)
(* real computation.  An optional field is a sequence of length 0          *)
(* (undefined) or 1 (the value).                                           *)
(***************************************************************************)
EXTENDS Integers, Sequences, FiniteSets, TLC

VARIABLES draft, errors, isSubmitting, request, submissionError, route, lastOp,
          quizzes, deletingId, listError, pending

\* the state of the quiz list page (pages/quizzes/index.tsx)
listVars == <<quizzes, deletingId, listError, pending>>

\* the state of the create page
createVars == <<draft, errors, isSubmitting, request, submissionError>>

vars == <<draft, errors, isSubmitting, request, submissionError, route, lastOp,
          quizzes, deletingId, listError, pending>>

(***************************************************************************)
(* Bounds of the model.                                                    *)
(***************************************************************************)
MaxQuestions == 2
MaxOptions == 2
MaxQuizzes == 3
MaxInFlight == 2

(***************************************************************************)
(* Optional values and strings.                                            *)
(***************************************************************************)
undefined == <<>>
Def(x) == <<x>>
IsDef(o) == o # <<>>
Val(o) == o[1]
OrElse(o, d) == IF IsDef(o) THEN Val(o) ELSE d

EmptyStr == <<>>
Blank == <<" ">>
StrA == <<"a">>
StrB == <<"b">>
StrAPad == <<"a", " ">>
StrPadA == <<" ", "a">>
StrPadAPad == <<" ", "a", " ">>

RECURSIVE TrimStart(_)
TrimStart(s) == IF s # <<>> /\ Head(s) = " " THEN TrimStart(Tail(s)) ELSE s

RECURSIVE TrimEnd(_)
TrimEnd(s) ==
    IF s # <<>> /\ s[Len(s)] = " " THEN TrimEnd(SubSeq(s, 1, Len(s) - 1)) ELSE s

\* String.prototype.trim
Trim(s) == TrimEnd(TrimStart(s))

\* Array.prototype.filter((_, idx) => idx !== optionIndex), 1-based here
RemoveAt(s, o) ==
    IF o \in 1..Len(s)
    THEN [k \in 1..(Len(s) - 1) |-> IF k < o THEN s[k] ELSE s[k + 1]]
    ELSE s

questionTypes == {"boolean", "input", "checkbox"}

\* the values the type <select> offers: the three types and "Select type"
selectValues == questionTypes \cup {""}

defaultQuestion ==
    [text |-> EmptyStr, type |-> "input", options |-> undefined,
     correctBoolean |-> undefined, correctInput |-> Def(EmptyStr),
     correctCheckbox |-> undefined]

defaultValues == [title |-> EmptyStr, questions |-> <<defaultQuestion>>]

(***************************************************************************)
(* The editor's handlers as functions of the question list (1-based        *)
(* question and option indices).                                           *)
(***************************************************************************)
\* a plausible slip: the new question put first
append_front(qs) == <<defaultQuestion>> \o qs

append(qs) == Append(qs, defaultQuestion)

remove(qs, i) == RemoveAt(qs, i)

\* a plausible slip: the option appended without its flag
addOption_dropFlag(qs, questionIndex) ==
    LET currentOptions == OrElse(qs[questionIndex].options, <<>>)
    IN [qs EXCEPT ![questionIndex].options = Def(Append(currentOptions, EmptyStr))]

\* a plausible slip: the new option and flag put first
addOption_prepend(qs, questionIndex) ==
    LET currentOptions == OrElse(qs[questionIndex].options, <<>>)
        currentCorrect == OrElse(qs[questionIndex].correctCheckbox, <<>>)
    IN [qs EXCEPT ![questionIndex].options = Def(<<EmptyStr>> \o currentOptions),
                  ![questionIndex].correctCheckbox = Def(<<FALSE>> \o currentCorrect)]

addOption(qs, questionIndex) ==
    LET currentOptions == OrElse(qs[questionIndex].options, <<>>)
        currentCorrect == OrElse(qs[questionIndex].correctCheckbox, <<>>)
    IN [qs EXCEPT ![questionIndex].options = Def(Append(currentOptions, EmptyStr)),
                  ![questionIndex].correctCheckbox = Def(Append(currentCorrect, FALSE))]

\* a plausible slip: the last flag dropped instead of the flag of the option
removeOption_lastFlag(qs, questionIndex, optionIndex) ==
    LET currentOptions == OrElse(qs[questionIndex].options, <<>>)
        currentCorrect == OrElse(qs[questionIndex].correctCheckbox, <<>>)
        nextOptions == RemoveAt(currentOptions, optionIndex)
        nextCorrect == SubSeq(currentCorrect, 1, Len(currentCorrect) - 1)
    IN [qs EXCEPT ![questionIndex].options =
                      IF Len(nextOptions) > 0 THEN Def(nextOptions) ELSE undefined,
                  ![questionIndex].correctCheckbox =
                      IF Len(nextCorrect) > 0 THEN Def(nextCorrect) ELSE undefined]

removeOption(qs, questionIndex, optionIndex) ==
    LET currentOptions == OrElse(qs[questionIndex].options, <<>>)
        currentCorrect == OrElse(qs[questionIndex].correctCheckbox, <<>>)
        nextOptions == RemoveAt(currentOptions, optionIndex)
        nextCorrect == RemoveAt(currentCorrect, optionIndex)
    IN [qs EXCEPT ![questionIndex].options =
                      IF Len(nextOptions) > 0 THEN Def(nextOptions) ELSE undefined,
                  ![questionIndex].correctCheckbox =
                      IF Len(nextCorrect) > 0 THEN Def(nextCorrect) ELSE undefined]

\* a plausible slip: the switch to input keeps the options and flags
handleTypeChange_keepOptions(qs, questionIndex, newType) ==
    IF newType = "boolean" THEN
        [qs EXCEPT ![questionIndex].options = undefined,
                   ![questionIndex].correctCheckbox = undefined,
                   ![questionIndex].correctInput = undefined,
                   ![questionIndex].correctBoolean = Def("true")]
    ELSE IF newType = "input" THEN
        [qs EXCEPT ![questionIndex].correctBoolean = undefined,
                   ![questionIndex].correctInput = Def(EmptyStr)]
    ELSE IF newType = "checkbox" THEN
        LET existingOptions == OrElse(qs[questionIndex].options, <<>>)
            existingCorrect == OrElse(qs[questionIndex].correctCheckbox, <<>>)
            options == IF Len(existingOptions) > 0 THEN existingOptions
                       ELSE <<EmptyStr>>
            correctFlags == [idx \in 1..Len(options) |->
                                IF idx <= Len(existingCorrect)
                                THEN existingCorrect[idx] ELSE FALSE]
        IN [qs EXCEPT ![questionIndex].options = Def(options),
                      ![questionIndex].correctCheckbox = Def(correctFlags),
                      ![questionIndex].correctBoolean = undefined,
                      ![questionIndex].correctInput = undefined]
    ELSE qs

\* a plausible slip: the switch to boolean forgets to clear correctInput
handleTypeChange_keepInput(qs, questionIndex, newType) ==
    IF newType = "boolean" THEN
        [qs EXCEPT ![questionIndex].options = undefined,
                   ![questionIndex].correctCheckbox = undefined,
                   ![questionIndex].correctBoolean = Def("true")]
    ELSE IF newType = "input" THEN
        [qs EXCEPT ![questionIndex].options = undefined,
                   ![questionIndex].correctCheckbox = undefined,
                   ![questionIndex].correctBoolean = undefined,
                   ![questionIndex].correctInput = Def(EmptyStr)]
    ELSE IF newType = "checkbox" THEN
        LET existingOptions == OrElse(qs[questionIndex].options, <<>>)
            existingCorrect == OrElse(qs[questionIndex].correctCheckbox, <<>>)
            options == IF Len(existingOptions) > 0 THEN existingOptions
                       ELSE <<EmptyStr>>
            correctFlags == [idx \in 1..Len(options) |->
                                IF idx <= Len(existingCorrect)
                                THEN existingCorrect[idx] ELSE FALSE]
        IN [qs EXCEPT ![questionIndex].options = Def(options),
                      ![questionIndex].correctCheckbox = Def(correctFlags),
                      ![questionIndex].correctBoolean = undefined,
                      ![questionIndex].correctInput = undefined]
    ELSE qs

\* a plausible slip: the switch to checkbox starts every flag at false
handleTypeChange_resetFlags(qs, questionIndex, newType) ==
    IF newType = "boolean" THEN
        [qs EXCEPT ![questionIndex].options = undefined,
                   ![questionIndex].correctCheckbox = undefined,
                   ![questionIndex].correctInput = undefined,
                   ![questionIndex].correctBoolean = Def("true")]
    ELSE IF newType = "input" THEN
        [qs EXCEPT ![questionIndex].options = undefined,
                   ![questionIndex].correctCheckbox = undefined,
                   ![questionIndex].correctBoolean = undefined,
                   ![questionIndex].correctInput = Def(EmptyStr)]
    ELSE IF newType = "checkbox" THEN
        LET existingOptions == OrElse(qs[questionIndex].options, <<>>)
            options == IF Len(existingOptions) > 0 THEN existingOptions
                       ELSE <<EmptyStr>>
            correctFlags == [idx \in 1..Len(options) |-> FALSE]
        IN [qs EXCEPT ![questionIndex].options = Def(options),
                      ![questionIndex].correctCheckbox = Def(correctFlags),
                      ![questionIndex].correctBoolean = undefined,
                      ![questionIndex].correctInput = undefined]
    ELSE qs

\* a plausible slip: the switch to boolean selects no answer
handleTypeChange_noDefaultAnswer(qs, questionIndex, newType) ==
    IF newType = "boolean" THEN
        [qs EXCEPT ![questionIndex].options = undefined,
                   ![questionIndex].correctCheckbox = undefined,
                   ![questionIndex].correctInput = undefined,
                   ![questionIndex].correctBoolean = undefined]
    ELSE IF newType = "input" THEN
        [qs EXCEPT ![questionIndex].options = undefined,
                   ![questionIndex].correctCheckbox = undefined,
                   ![questionIndex].correctBoolean = undefined,
                   ![questionIndex].correctInput = Def(EmptyStr)]
    ELSE IF newType = "checkbox" THEN
        LET existingOptions == OrElse(qs[questionIndex].options, <<>>)
            existingCorrect == OrElse(qs[questionIndex].correctCheckbox, <<>>)
            options == IF Len(existingOptions) > 0 THEN existingOptions
                       ELSE <<EmptyStr>>
            correctFlags == [idx \in 1..Len(options) |->
                                IF idx <= Len(existingCorrect)
                                THEN existingCorrect[idx] ELSE FALSE]
        IN [qs EXCEPT ![questionIndex].options = Def(options),
                      ![questionIndex].correctCheckbox = Def(correctFlags),
                      ![questionIndex].correctBoolean = undefined,
                      ![questionIndex].correctInput = undefined]
    ELSE qs

handleTypeChange(qs, questionIndex, newType) ==
    IF newType = "boolean" THEN
        [qs EXCEPT ![questionIndex].options = undefined,
                   ![questionIndex].correctCheckbox = undefined,
                   ![questionIndex].correctInput = undefined,
                   ![questionIndex].correctBoolean = Def("true")]
    ELSE IF newType = "input" THEN
        [qs EXCEPT ![questionIndex].options = undefined,
                   ![questionIndex].correctCheckbox = undefined,
                   ![questionIndex].correctBoolean = undefined,
                   ![questionIndex].correctInput = Def(EmptyStr)]
    ELSE IF newType = "checkbox" THEN
        LET existingOptions == OrElse(qs[questionIndex].options, <<>>)
            existingCorrect == OrElse(qs[questionIndex].correctCheckbox, <<>>)
            options == IF Len(existingOptions) > 0 THEN existingOptions
                       ELSE <<EmptyStr>>
            correctFlags == [idx \in 1..Len(options) |->
                                IF idx <= Len(existingCorrect)
                                THEN existingCorrect[idx] ELSE FALSE]
        IN [qs EXCEPT ![questionIndex].options = Def(options),
                      ![questionIndex].correctCheckbox = Def(correctFlags),
                      ![questionIndex].correctBoolean = undefined,
                      ![questionIndex].correctInput = undefined]
    ELSE qs

\* a plausible slip: the question re-initialised from the default on a switch
changeType_resetsQuestion(qs, questionIndex, newType) ==
    handleTypeChange([qs EXCEPT ![questionIndex] =
                         [defaultQuestion EXCEPT !.type = newType]],
                     questionIndex, newType)

\* the type <select>: the registered field takes the value, then its onChange
\* calls handleTypeChange
changeType(qs, questionIndex, newType) ==
    handleTypeChange([qs EXCEPT ![questionIndex].type = newType],
                     questionIndex, newType)

(***************************************************************************)
(* Validation: createQuizSchema run by zodResolver.  An issue is a field   *)
(* path (with the 0-based indices of the page) and a message.              *)
(***************************************************************************)
Issue(path, message) == [path |-> path, message |-> message]

\* z.string().min(1, message)
minOne(s) == Len(s) >= 1

\* z.array(z.string().trim().min(1, 'Option cannot be empty')).optional():
\* the issues of the elements, at options[j]
optionIssues(q, i) ==
    IF IsDef(q.options)
    THEN {Issue(<<"questions", i, "options", j - 1>>, "Option cannot be empty") :
            j \in {k \in 1..Len(Val(q.options)) : ~minOne(Trim(Val(q.options)[k]))}}
    ELSE {}

\* the fields of z.object({...}) of questionSchema
fieldIssues(q, i) ==
    (IF minOne(q.text) THEN {}
     ELSE {Issue(<<"questions", i, "text">>, "Question text is required")})
    \cup (IF q.type \in questionTypes THEN {}
          ELSE {Issue(<<"questions", i, "type">>, "Invalid enum value")})
    \cup optionIssues(q, i)

\* an invalid enum value aborts the object's parse: refinements are skipped;
\* a failed min(1) only marks it dirty and the refinements still run
aborted(q) == q.type \notin questionTypes

\* the output of the object's parse: the options trimmed
parsedQuestion(q) ==
    IF IsDef(q.options)
    THEN [q EXCEPT !.options =
             Def([k \in 1..Len(Val(q.options)) |-> Trim(Val(q.options)[k])])]
    ELSE q

someTrue(flags) == \E k \in 1..Len(flags) : flags[k]

\* a plausible slip: the boolean rule applied whatever the type
booleanRule_anyType(q, i) ==
    IF ~IsDef(q.correctBoolean)
    THEN {Issue(<<"questions", i, "correctBoolean">>, "Select the correct answer")}
    ELSE {}

booleanRule(q, i) ==
    IF q.type = "boolean" /\ ~IsDef(q.correctBoolean)
    THEN {Issue(<<"questions", i, "correctBoolean">>, "Select the correct answer")}
    ELSE {}

\* a plausible slip: the expected answer checked without trimming
inputRule_noTrim(q, i) ==
    IF q.type = "input"
       /\ (~IsDef(q.correctInput) \/ Val(q.correctInput) = EmptyStr)
    THEN {Issue(<<"questions", i, "correctInput">>, "Provide the expected answer")}
    ELSE {}

inputRule(q, i) ==
    IF q.type = "input"
       /\ (~IsDef(q.correctInput) \/ Val(q.correctInput) = EmptyStr
           \/ Len(Trim(Val(q.correctInput))) = 0)
    THEN {Issue(<<"questions", i, "correctInput">>, "Provide the expected answer")}
    ELSE {}

checkboxRule(q, i) ==
    IF q.type = "checkbox"
    THEN (IF ~IsDef(q.options) \/ Len(Val(q.options)) = 0
          THEN {Issue(<<"questions", i, "options">>,
                      "Add at least one option for checkbox questions")}
          ELSE {})
         \cup
         (IF ~IsDef(q.correctCheckbox)
             \/ Len(Val(q.correctCheckbox)) # Len(OrElse(q.options, <<>>))
          THEN {Issue(<<"questions", i, "correctCheckbox">>,
                      "Mark which options are correct")}
          ELSE IF ~someTrue(Val(q.correctCheckbox))
          THEN {Issue(<<"questions", i, "correctCheckbox">>,
                      "Select at least one correct option")}
          ELSE {})
    ELSE {}

\* questionSchema.superRefine
superRefine(q, i) == booleanRule(q, i) \cup inputRule(q, i) \cup checkboxRule(q, i)

\* a plausible slip: the refinements skipped as soon as a field has an issue
questionSchema_firstError(q, i) ==
    IF fieldIssues(q, i) # {} THEN fieldIssues(q, i)
    ELSE superRefine(parsedQuestion(q), i)

\* questionSchema on the question at 0-based index i
questionSchema(q, i) ==
    fieldIssues(q, i)
    \cup (IF aborted(q) THEN {} ELSE superRefine(parsedQuestion(q), i))

createQuizSchema(d) ==
    (IF minOne(d.title) THEN {} ELSE {Issue(<<"title">>, "Title is required")})
    \cup (IF Len(d.questions) >= 1 THEN {}
          ELSE {Issue(<<"questions">>, "Add at least one question to the quiz")})
    \cup UNION {questionSchema(d.questions[n], n - 1) : n \in 1..Len(d.questions)}

\* zodResolver(createQuizSchema): the error set of the form values
validate(d) == createQuizSchema(d)

\* the values the resolver hands to onSubmit when there is no error
parsedData(d) ==
    [d EXCEPT !.questions = [n \in 1..Len(d.questions) |->
                                parsedQuestion(d.questions[n])]]

(***************************************************************************)
(* Submission: the payload onSubmit builds.                                *)
(***************************************************************************)
\* options.filter((_, idx) => correctCheckbox[idx])
RECURSIVE filterByFlags(_, _, _)
filterByFlags(options, flags, idx) ==
    IF idx > Len(options) THEN <<>>
    ELSE (IF idx <= Len(flags) /\ flags[idx] THEN <<options[idx]>> ELSE <<>>)
         \o filterByFlags(options, flags, idx + 1)

\* a plausible slip: any selected value counts as true
booleanPayload_truthy(question) ==
    [text |-> question.text, type |-> question.type,
     options |-> <<<<"T", "r", "u", "e">>, <<"F", "a", "l", "s", "e">>>>,
     correctAnswer |-> IsDef(question.correctBoolean)]

booleanPayload(question) ==
    [text |-> question.text, type |-> question.type,
     options |-> <<<<"T", "r", "u", "e">>, <<"F", "a", "l", "s", "e">>>>,
     correctAnswer |-> (question.correctBoolean = Def("true"))]

\* a plausible slip: the expected answer sent as typed
inputPayload_noTrim(question) ==
    [text |-> question.text, type |-> question.type,
     correctAnswer |-> OrElse(question.correctInput, EmptyStr)]

\* question.correctInput?.trim() ?? ''
inputPayload(question) ==
    [text |-> question.text, type |-> question.type,
     correctAnswer |-> IF IsDef(question.correctInput)
                       THEN Trim(Val(question.correctInput)) ELSE EmptyStr]

\* a plausible slip: the flags read one position off
checkboxPayload_shifted(question) ==
    LET options == [k \in 1..Len(OrElse(question.options, <<>>)) |->
                       Trim(Val(question.options)[k])]
        correctCheckbox == OrElse(question.correctCheckbox, <<>>)
        correctAnswer == filterByFlags(options, <<FALSE>> \o correctCheckbox, 1)
    IN [text |-> question.text, type |-> question.type,
        options |-> options, correctAnswer |-> correctAnswer]

checkboxPayload(question) ==
    LET options == [k \in 1..Len(OrElse(question.options, <<>>)) |->
                       Trim(Val(question.options)[k])]
        correctCheckbox == OrElse(question.correctCheckbox, <<>>)
        correctAnswer == filterByFlags(options, correctCheckbox, 1)
    IN [text |-> question.text, type |-> question.type,
        options |-> options, correctAnswer |-> correctAnswer]

\* the callback of data.questions.map in onSubmit
questionPayload(question) ==
    IF question.type = "boolean" THEN booleanPayload(question)
    ELSE IF question.type = "input" THEN inputPayload(question)
    ELSE checkboxPayload(question)

\* the argument of createQuiz in onSubmit
submission(data) ==
    [title |-> data.title,
     questions |-> [n \in 1..Len(data.questions) |->
                       questionPayload(data.questions[n])]]

(***************************************************************************)
(* The quiz details page: the rendering of a checkbox question of the quiz *)
(* the service returned.                                                   *)
(***************************************************************************)
\* correctAnswers.includes(option), for the option at optionIndex (1-based)
isCorrect(question, optionIndex) ==
    \E k \in 1..Len(question.correctAnswer) :
        question.correctAnswer[k] = question.options[optionIndex]

(***************************************************************************)
(* The create page.  State: the form values (draft), the errors of the     *)
(* last submit attempt, isSubmitting, the argument of the last createQuiz  *)
(* call (request), submissionError, the route, and the last handler run.   *)
(***************************************************************************)
\* what the user types into a text field
Typed == {EmptyStr, StrA}

\* the quiz ids of the model
QuizIds == 1..MaxQuizzes

\* the list page before it is mounted: nothing listed, nothing in flight
ListIdle ==
    /\ quizzes = <<>>
    /\ deletingId = undefined
    /\ listError = undefined
    /\ pending = [id \in QuizIds |-> 0]

Init ==
    /\ ListIdle
    /\ draft = defaultValues
    /\ errors = {}
    /\ isSubmitting = FALSE
    /\ request = undefined
    /\ submissionError = undefined
    /\ route = "/create"
    /\ lastOp = "init"

Questions == draft.questions
QIndex == 1..Len(draft.questions)

Edit(qs, op) ==
    /\ route = "/create"
    /\ draft' = [draft EXCEPT !.questions = qs]
    /\ lastOp' = op
    /\ UNCHANGED <<errors, isSubmitting, request, submissionError, route, listVars>>

\* register('title')
SetTitle ==
    \E s \in Typed :
        /\ route = "/create"
        /\ s # draft.title
        /\ draft' = [draft EXCEPT !.title = s]
        /\ lastOp' = "setTitle"
        /\ UNCHANGED <<errors, isSubmitting, request, submissionError, route, listVars>>

\* register(`questions.${questionIndex}.text`)
SetText ==
    \E i \in QIndex, s \in Typed :
        /\ s # Questions[i].text
        /\ Edit([Questions EXCEPT ![i].text = s], "setText")

\* the 'Add question' button
AddQuestion ==
    /\ Len(Questions) < MaxQuestions
    /\ Edit(append(Questions), "addQuestion")

\* a plausible slip: the button never disabled
RemoveQuestion_neverDisabled ==
    \E i \in QIndex : Edit(remove(Questions, i), "removeQuestion")

\* the 'Remove' button of a question, disabled when fields.length === 1
RemoveQuestion ==
    \E i \in QIndex :
        /\ Len(Questions) # 1
        /\ Edit(remove(Questions, i), "removeQuestion")

\* the type <select> of a question
SelectType ==
    \E i \in QIndex, t \in selectValues :
        /\ t # Questions[i].type
        /\ Edit(changeType(Questions, i, t), "handleTypeChange")

\* the True / False radios, rendered for a boolean question
SetCorrectBoolean ==
    \E i \in QIndex, v \in {"true", "false"} :
        /\ Questions[i].type = "boolean"
        /\ Questions[i].correctBoolean # Def(v)
        /\ Edit([Questions EXCEPT ![i].correctBoolean = Def(v)], "setCorrectBoolean")

\* the expected-answer input, rendered for an input question
SetCorrectInput ==
    \E i \in QIndex, s \in Typed :
        /\ Questions[i].type = "input"
        /\ Questions[i].correctInput # Def(s)
        /\ Edit([Questions EXCEPT ![i].correctInput = Def(s)], "setCorrectInput")

\* the text input of an option row, rendered for each option of a checkbox question
SetOption ==
    \E i \in QIndex, s \in Typed :
        /\ Questions[i].type = "checkbox"
        /\ \E j \in 1..Len(OrElse(Questions[i].options, <<>>)) :
              /\ Val(Questions[i].options)[j] # s
              /\ Edit([Questions EXCEPT ![i].options =
                          Def([Val(Questions[i].options) EXCEPT ![j] = s])],
                      "setOption")

\* the 'Correct answer' checkbox of an option row
ToggleFlag ==
    \E i \in QIndex :
        /\ Questions[i].type = "checkbox"
        /\ \E j \in 1..Len(OrElse(Questions[i].options, <<>>)) :
              /\ j <= Len(OrElse(Questions[i].correctCheckbox, <<>>))
              /\ Edit([Questions EXCEPT ![i].correctCheckbox =
                          Def([Val(Questions[i].correctCheckbox) EXCEPT
                                  ![j] = ~Val(Questions[i].correctCheckbox)[j]])],
                      "toggleFlag")

\* the 'Add option' button, rendered for a checkbox question
AddOption ==
    \E i \in QIndex :
        /\ Questions[i].type = "checkbox"
        /\ Len(OrElse(Questions[i].options, <<>>)) < MaxOptions
        /\ Edit(addOption(Questions, i), "addOption")

\* the 'Remove' button of an option row
RemoveOption ==
    \E i \in QIndex :
        /\ Questions[i].type = "checkbox"
        /\ \E j \in 1..Len(OrElse(Questions[i].options, <<>>)) :
              Edit(removeOption(Questions, i, j), "removeOption")

Next ==
    \/ SetTitle
    \/ SetText
    \/ AddQuestion
    \/ RemoveQuestion
    \/ SelectType
    \/ SetCorrectBoolean
    \/ SetCorrectInput
    \/ SetOption
    \/ ToggleFlag
    \/ AddOption
    \/ RemoveOption

Spec == Init /\ [][Next]_vars

(***************************************************************************)
(* Submitting: handleSubmit(onSubmit) and the two ends of createQuiz.      *)
(***************************************************************************)
\* a plausible slip: onSubmit called whatever the resolver reports
HandleSubmit_unguarded ==
    /\ route = "/create"
    /\ ~isSubmitting
    /\ errors' = validate(draft)
    /\ submissionError' = undefined
    /\ request' = Def(submission(parsedData(draft)))
    /\ isSubmitting' = TRUE
    /\ lastOp' = "handleSubmit"
    /\ UNCHANGED <<draft, route, listVars>>

\* handleSubmit runs the resolver; onSubmit is called only when it reports no
\* error, with the parsed values, and then clears submissionError, builds the
\* payload and awaits createQuiz
HandleSubmit ==
    /\ route = "/create"
    /\ ~isSubmitting
    /\ errors' = validate(draft)
    /\ IF validate(draft) = {}
       THEN /\ submissionError' = undefined
            /\ request' = Def(submission(parsedData(draft)))
            /\ isSubmitting' = TRUE
       ELSE UNCHANGED <<submissionError, request, isSubmitting>>
    /\ lastOp' = "handleSubmit"
    /\ UNCHANGED <<draft, route, listVars>>

\* createQuiz resolves: router.push('/quizzes')
CreateQuizOk ==
    /\ isSubmitting
    /\ route' = "/quizzes"
    /\ isSubmitting' = FALSE
    /\ lastOp' = "createQuizOk"
    /\ UNCHANGED <<draft, errors, request, submissionError, listVars>>

\* createQuiz throws (a response that is not ok, or fetch itself failing)
CreateQuizFail ==
    \E message \in {"Failed to create quiz", "Failed to fetch"} :
        /\ isSubmitting
        /\ submissionError' = Def(message)
        /\ isSubmitting' = FALSE
        /\ lastOp' = "createQuizFail"
        /\ UNCHANGED <<draft, errors, request, route, listVars>>

(***************************************************************************)
(* The drafts validate() and onSubmit are applied to: every field of a     *)
(* question drawn independently of its type.                               *)
(***************************************************************************)
SeqsUpTo(S, n) == UNION {[1..k -> S] : k \in 0..n}
Optional(S) == {undefined} \cup {Def(x) : x \in S}

Titles == {EmptyStr, StrPadA}
Texts == {EmptyStr, StrPadAPad}
OptionTexts == {EmptyStr, Blank, StrA, StrAPad, StrB}

QuestionDomain ==
    [text : Texts,
     type : selectValues,
     options : Optional(SeqsUpTo(OptionTexts, MaxOptions)),
     correctBoolean : Optional({"true", "false"}),
     correctInput : Optional({EmptyStr, Blank, StrPadAPad}),
     correctCheckbox : Optional(SeqsUpTo(BOOLEAN, MaxOptions))]

\* the questions of the drafts with several questions: the fields of the
\* question's own type only, at most one option
SmallQuestions ==
    [text : Texts, type : {"boolean"}, options : {undefined},
     correctBoolean : Optional({"true", "false"}),
     correctInput : {undefined}, correctCheckbox : {undefined}]
    \cup
    [text : Texts, type : {"input"}, options : {undefined},
     correctBoolean : {undefined},
     correctInput : Optional({EmptyStr, StrPadAPad}), correctCheckbox : {undefined}]
    \cup
    [text : Texts, type : {"checkbox"},
     options : Optional(SeqsUpTo({Blank, StrA}, 1)),
     correctBoolean : {undefined}, correctInput : {undefined},
     correctCheckbox : Optional(SeqsUpTo(BOOLEAN, 1))]

DraftDomain ==
    [title : Titles,
     questions : {<<>>} \cup {<<q>> : q \in QuestionDomain}
                 \cup UNION {[1..n -> SmallQuestions] : n \in 2..MaxQuestions}]

SubmitInit ==
    /\ ListIdle
    /\ draft \in DraftDomain
    /\ errors = {}
    /\ isSubmitting = FALSE
    /\ request = undefined
    /\ submissionError = undefined
    /\ route = "/create"
    /\ lastOp = "init"

SubmitNext ==
    \/ HandleSubmit
    \/ CreateQuizOk
    \/ CreateQuizFail

SpecSubmit == SubmitInit /\ [][SubmitNext]_vars

(***************************************************************************)
(* The create page over several submit attempts: the new draft, its text   *)
(* fields edited between the attempts and while a request is in flight.    *)
(***************************************************************************)
PageNext ==
    \/ SetTitle
    \/ SetText
    \/ SetCorrectInput
    \/ HandleSubmit
    \/ CreateQuizOk
    \/ CreateQuizFail

SpecPage == Init /\ [][PageNext]_vars

(***************************************************************************)
(* The quiz list page.  A quiz is represented by its id; pending[id] is    *)
(* the number of DELETE requests for id that have been issued and have not *)
(* yet completed.                                                          *)
(***************************************************************************)
\* initialQuizzes, as getServerSideProps loaded them: quizzes with distinct ids
\* in the server's order, or none when loading failed
InitialQuizzes ==
    {qz \in SeqsUpTo(QuizIds, MaxQuizzes) :
        \A a, b \in 1..Len(qz) : a # b => qz[a] # qz[b]}

ListInit ==
    /\ quizzes \in InitialQuizzes
    /\ deletingId = undefined
    /\ listError = undefined
    /\ pending = [id \in QuizIds |-> 0]
    /\ draft = defaultValues
    /\ errors = {}
    /\ isSubmitting = FALSE
    /\ request = undefined
    /\ submissionError = undefined
    /\ route = "/quizzes"
    /\ lastOp = "init"

Displayed == {quizzes[k] : k \in 1..Len(quizzes)}

\* a click on the delete button of a displayed quiz, disabled while
\* deletingId is its id: handleDelete up to its await
HandleDelete ==
    \E id \in Displayed :
        /\ route = "/quizzes"
        /\ deletingId # Def(id)
        /\ pending[id] < MaxInFlight
        /\ listError' = undefined
        /\ deletingId' = Def(id)
        /\ pending' = [pending EXCEPT ![id] = @ + 1]
        /\ lastOp' = "handleDelete"
        /\ UNCHANGED <<quizzes, createVars, route>>

\* a plausible slip: the filter keeps the deleted quiz instead of the others
DeleteOk_keepsDeleted ==
    \E id \in QuizIds :
        LET deleted(quiz) == quiz = id
        IN /\ pending[id] > 0
           /\ quizzes' = SelectSeq(quizzes, deleted)
           /\ deletingId' = undefined
           /\ pending' = [pending EXCEPT ![id] = @ - 1]
           /\ lastOp' = "deleteOk"
           /\ UNCHANGED <<listError, createVars, route>>

\* deleteQuiz(id) resolves: the quiz is filtered out, then finally
DeleteOk ==
    \E id \in QuizIds :
        LET kept(quiz) == quiz # id
        IN /\ pending[id] > 0
           /\ quizzes' = SelectSeq(quizzes, kept)
           /\ deletingId' = undefined
           /\ pending' = [pending EXCEPT ![id] = @ - 1]
           /\ lastOp' = "deleteOk"
           /\ UNCHANGED <<listError, createVars, route>>

\* deleteQuiz(id) throws (a response that is not ok, or fetch itself failing):
\* catch, then finally
DeleteFail ==
    \E id \in QuizIds, message \in {"Failed to delete quiz", "Failed to fetch"} :
        /\ pending[id] > 0
        /\ listError' = Def(message)
        /\ deletingId' = undefined
        /\ pending' = [pending EXCEPT ![id] = @ - 1]
        /\ lastOp' = "deleteFail"
        /\ UNCHANGED <<quizzes, createVars, route>>

ListNext ==
    \/ HandleDelete
    \/ DeleteOk
    \/ DeleteFail

SpecList == ListInit /\ [][ListNext]_vars

(***************************************************************************)
(* Properties of the editor (checked under Spec).                          *)
(***************************************************************************)
optionCount(q) == Len(OrElse(q.options, <<>>))
flagCount(q) == Len(OrElse(q.correctCheckbox, <<>>))

\* C1: in every state the editor reaches, every checkbox question has as many
\* flags as options (an absent list counting as empty), in particular after
\* every addOption and removeOption.
C1_OptionsFlagsAligned ==
    \A i \in QIndex :
        Questions[i].type = "checkbox" => optionCount(Questions[i]) = flagCount(Questions[i])

\* C1 witness: removeOption has just run and left a checkbox question with one
\* option, which took a second option added by addOption before.
C1_Witness ==
    /\ lastOp = "removeOption"
    /\ \E i \in QIndex :
          /\ Questions[i].type = "checkbox"
          /\ optionCount(Questions[i]) = 1
          /\ Questions[i].correctCheckbox = Def(<<TRUE>>)

\* C3: the draft always holds at least one question: the last question cannot
\* be removed.
C3_AtLeastOneQuestion == Len(draft.questions) >= 1

\* C3 witness: a question was just removed and exactly one is left, the state
\* in which removing is refused.
C3_Witness == lastOp = "removeQuestion" /\ Len(draft.questions) = 1

\* change_type(i, checkbox), change_type(i, input), change_type(i, checkbox)
typeRoundTrip(qs, i) ==
    changeType(changeType(changeType(qs, i, "checkbox"), i, "input"), i, "checkbox")

\* C4 as stated: for a checkbox question, switching to checkbox, input and
\* checkbox again leaves its options list as it was.
C4_Original ==
    \A i \in QIndex :
        Questions[i].type = "checkbox" =>
            typeRoundTrip(Questions, i)[i].options = Questions[i].options

\* C4 as amended: the switch to input clears the options, so the sequence
\* leaves the question a checkbox question with the single empty option and
\* the single flag false, whatever its options were; its text is kept.
C4_RoundTripResets ==
    \A i \in QIndex :
        Questions[i].type = "checkbox" =>
            LET after == typeRoundTrip(Questions, i)[i]
            IN /\ after.type = "checkbox"
               /\ after.options = Def(<<EmptyStr>>)
               /\ after.correctCheckbox = Def(<<FALSE>>)
               /\ after.text = Questions[i].text

\* C4 witness: a checkbox question whose options are not the seeded ones: two
\* options, one with text, one marked correct, after its type was selected.
C4_Witness ==
    \E i \in QIndex :
        /\ Questions[i].type = "checkbox"
        /\ Questions[i].text = StrA
        /\ Questions[i].options = Def(<<StrA, EmptyStr>>)
        /\ Questions[i].correctCheckbox = Def(<<TRUE, FALSE>>)

(***************************************************************************)
(* Properties of validation and submission (checked under SpecSubmit,      *)
(* where the draft is any draft of DraftDomain and does not change).       *)
(***************************************************************************)
attempted == lastOp # "init"
payload == Val(request)
DraftIndex == 1..Len(draft.questions)

\* the shape of a submission: title and texts not empty, at least one question,
\* an input answer not empty and trimmed, a checkbox question with options,
\* none empty, and a non-empty answer drawn from them
sectionThreeShape(p) ==
    /\ Len(p.title) >= 1
    /\ Len(p.questions) >= 1
    /\ \A n \in 1..Len(p.questions) :
          LET q == p.questions[n]
          IN /\ Len(q.text) >= 1
             /\ q.type \in questionTypes
             /\ q.type = "input" =>
                   Len(q.correctAnswer) >= 1 /\ Trim(q.correctAnswer) = q.correctAnswer
             /\ q.type = "checkbox" =>
                   /\ Len(q.options) >= 1
                   /\ \A k \in 1..Len(q.options) : Len(q.options[k]) >= 1
                   /\ Len(q.correctAnswer) >= 1
                   /\ \A m \in 1..Len(q.correctAnswer) :
                         \E k \in 1..Len(q.options) : q.correctAnswer[m] = q.options[k]

\* C2: a submit attempt produces a submission exactly when validate() reports
\* no error, and every submission produced has the shape of section 3.
C2_ValidIffSubmission ==
    attempted =>
        /\ (validate(draft) = {}) <=> IsDef(request)
        /\ IsDef(request) => sectionThreeShape(payload)

\* C2 witness: a submission was produced for a draft with a checkbox question
\* of two options, the second one marked correct.
C2_Witness ==
    /\ lastOp = "handleSubmit"
    /\ IsDef(request)
    /\ Len(draft.questions) = 1
    /\ draft.questions[1].type = "checkbox"
    /\ draft.questions[1].options = Def(<<StrA, StrB>>)
    /\ draft.questions[1].correctCheckbox = Def(<<FALSE, TRUE>>)

\* the type rule of a question, as the page states it
blank(o) == ~IsDef(o) \/ Trim(Val(o)) = EmptyStr

typeRuleViolated(q) ==
    \/ q.type = "boolean" /\ ~IsDef(q.correctBoolean)
    \/ q.type = "input" /\ blank(q.correctInput)
    \/ q.type = "checkbox"
       /\ \/ optionCount(q) = 0
          \/ ~IsDef(q.correctCheckbox)
          \/ flagCount(q) # optionCount(q)
          \/ \A k \in 1..flagCount(q) : ~Val(q.correctCheckbox)[k]

\* the paths of the fields that break a rule in draft d
violatedPaths(d) ==
    (IF d.title = EmptyStr THEN {<<"title">>} ELSE {})
    \cup (IF d.questions = <<>> THEN {<<"questions">>} ELSE {})
    \cup UNION {
        LET q == d.questions[n]
        IN (IF q.text = EmptyStr THEN {<<"questions", n - 1, "text">>} ELSE {})
           \cup {<<"questions", n - 1, "options", k - 1>> :
                    k \in {j \in 1..optionCount(q) : Trim(Val(q.options)[j]) = EmptyStr}}
           \cup (IF q.type = "boolean" /\ ~IsDef(q.correctBoolean)
                 THEN {<<"questions", n - 1, "correctBoolean">>} ELSE {})
           \cup (IF q.type = "input" /\ blank(q.correctInput)
                 THEN {<<"questions", n - 1, "correctInput">>} ELSE {})
           \cup (IF q.type = "checkbox" /\ optionCount(q) = 0
                 THEN {<<"questions", n - 1, "options">>} ELSE {})
           \cup (IF q.type = "checkbox"
                    /\ (\/ ~IsDef(q.correctCheckbox)
                        \/ flagCount(q) # optionCount(q)
                        \/ \A k \in 1..flagCount(q) : ~Val(q.correctCheckbox)[k])
                 THEN {<<"questions", n - 1, "correctCheckbox">>} ELSE {})
        : n \in 1..Len(d.questions)}

\* C5: the errors of a submit attempt hold an entry, at the path of the field,
\* for every rule the draft breaks, all of them at once.
C5_AllViolationsReported ==
    attempted => violatedPaths(draft) \subseteq {e.path : e \in errors}

\* C5 witness: one submit attempt reported an empty title, an empty question
\* text, a blank option and a checkbox question without a correct option.
C5_Witness ==
    /\ lastOp = "handleSubmit"
    /\ {<<"title">>, <<"questions", 0, "text">>, <<"questions", 0, "options", 1>>,
        <<"questions", 0, "correctCheckbox">>} \subseteq {e.path : e \in errors}

\* the errors at the type-specific fields of the question at 1-based index n
typeErrors(n) ==
    {e \in errors :
        /\ Len(e.path) = 3
        /\ e.path[2] = n - 1
        /\ e.path[3] \in {"correctBoolean", "correctInput", "options", "correctCheckbox"}}

ownFields(t) ==
    IF t = "boolean" THEN {"correctBoolean"}
    ELSE IF t = "input" THEN {"correctInput"}
    ELSE IF t = "checkbox" THEN {"options", "correctCheckbox"}
    ELSE {}

\* C6: a question gets a type-specific error exactly when the rule of its own
\* type is broken, and only at the fields of its own type.
C6_TypeRuleExact ==
    attempted =>
        \A n \in DraftIndex :
            /\ (typeErrors(n) # {}) <=> typeRuleViolated(draft.questions[n])
            /\ \A e \in typeErrors(n) : e.path[3] \in ownFields(draft.questions[n].type)

\* C6 witness: a checkbox question with two options and one flag got the error
\* of its own rule, while it has no correctBoolean and no correctInput.
C6_Witness ==
    /\ lastOp = "handleSubmit"
    /\ Len(draft.questions) = 1
    /\ draft.questions[1].type = "checkbox"
    /\ optionCount(draft.questions[1]) = 2
    /\ draft.questions[1].correctCheckbox = Def(<<TRUE>>)
    /\ ~IsDef(draft.questions[1].correctBoolean)
    /\ ~IsDef(draft.questions[1].correctInput)
    /\ {e.message : e \in typeErrors(1)} = {"Mark which options are correct"}

\* C7: a submit attempt on a draft with at least one validation error is
\* refused: no submission is built, no request is in flight and the errors of
\* the draft are reported.
C7_InvalidDraftRefused ==
    (attempted /\ validate(draft) # {}) =>
        /\ request = undefined
        /\ ~isSubmitting
        /\ errors = validate(draft)
        /\ route = "/create"

\* C7 witness: a submit attempt on a boolean question with no answer selected,
\* which onSubmit would map to correctAnswer false.
C7_Witness ==
    /\ lastOp = "handleSubmit"
    /\ Len(draft.questions) = 1
    /\ draft.title # EmptyStr
    /\ draft.questions[1].type = "boolean"
    /\ draft.questions[1].text # EmptyStr
    /\ ~IsDef(draft.questions[1].correctBoolean)
    /\ ~IsDef(draft.questions[1].options)

\* the k-th smallest member of a set of indices
nth(I, m) == CHOOSE k \in I : Cardinality({x \in I : x <= k}) = m

\* C8: for a checkbox question the submission's options are the trimmed
\* options and its correctAnswer is the trimmed options at the indices whose
\* flag is true, in increasing order of index.
C8_CheckboxAnswerIsFlaggedSubsequence ==
    IsDef(request) =>
        \A n \in DraftIndex :
            draft.questions[n].type = "checkbox" =>
                LET q == draft.questions[n]
                    p == payload.questions[n]
                    trimmed == [k \in 1..optionCount(q) |-> Trim(Val(q.options)[k])]
                    I == {k \in 1..optionCount(q) :
                             k <= flagCount(q) /\ Val(q.correctCheckbox)[k]}
                IN /\ p.options = trimmed
                   /\ Len(p.correctAnswer) = Cardinality(I)
                   /\ \A m \in 1..Cardinality(I) : p.correctAnswer[m] = trimmed[nth(I, m)]

\* C8 witness: a submission for the options "a " and "b" with only the first
\* marked correct: the answer is the trimmed first option.
C8_Witness ==
    /\ IsDef(request)
    /\ Len(draft.questions) = 1
    /\ draft.questions[1].type = "checkbox"
    /\ draft.questions[1].options = Def(<<StrAPad, StrB>>)
    /\ draft.questions[1].correctCheckbox = Def(<<TRUE, FALSE>>)
    /\ payload.questions[1].correctAnswer = <<StrA>>

\* C9: for a boolean question the submission's options are "True" and "False"
\* and its correctAnswer is true exactly when correctBoolean is "true".
C9_BooleanAnswer ==
    IsDef(request) =>
        \A n \in DraftIndex :
            draft.questions[n].type = "boolean" =>
                LET q == draft.questions[n]
                    p == payload.questions[n]
                IN /\ p.options = <<<<"T", "r", "u", "e">>, <<"F", "a", "l", "s", "e">>>>
                   /\ p.correctAnswer \in BOOLEAN
                   /\ p.correctAnswer <=> (q.correctBoolean = Def("true"))
                   /\ q.correctBoolean = Def("false") => p.correctAnswer = FALSE

\* C9 witness: a submission for a boolean question with "false" selected.
C9_Witness ==
    /\ IsDef(request)
    /\ \E n \in DraftIndex :
          /\ draft.questions[n].type = "boolean"
          /\ draft.questions[n].correctBoolean = Def("false")
          /\ payload.questions[n].correctAnswer = FALSE

\* C10 as stated: in the submission each question's text, each input answer
\* and each checkbox option is the draft's value trimmed.
C10_Original ==
    IsDef(request) =>
        \A n \in DraftIndex :
            LET q == draft.questions[n]
                p == payload.questions[n]
            IN /\ p.text = Trim(q.text)
               /\ q.type = "input" => p.correctAnswer = Trim(Val(q.correctInput))
               /\ q.type = "checkbox" =>
                     p.options = [k \in 1..optionCount(q) |-> Trim(Val(q.options)[k])]

\* C10 as amended: each input answer and each checkbox option is the draft's
\* value trimmed; the question's text and the title are sent as typed.
C10_AnswersTrimmedTextKept ==
    IsDef(request) =>
        /\ payload.title = draft.title
        /\ \A n \in DraftIndex :
              LET q == draft.questions[n]
                  p == payload.questions[n]
              IN /\ p.text = q.text
                 /\ q.type = "input" => p.correctAnswer = Trim(Val(q.correctInput))
                 /\ q.type = "checkbox" =>
                       p.options = [k \in 1..optionCount(q) |-> Trim(Val(q.options)[k])]

\* C10 witness: a submission for an input question whose text and expected
\* answer are both " a ": the answer is sent as "a", the text as " a ".
C10_Witness ==
    /\ IsDef(request)
    /\ Len(draft.questions) = 1
    /\ draft.questions[1].type = "input"
    /\ draft.questions[1].text = StrPadAPad
    /\ draft.questions[1].correctInput = Def(StrPadAPad)
    /\ payload.questions[1].correctAnswer = StrA
    /\ payload.questions[1].text = StrPadAPad

(***************************************************************************)
(* Properties of the single editor operations (checked under Spec).        *)
(***************************************************************************)
\* C11: selecting boolean leaves the question with options, flags and
\* correctInput absent and correctBoolean "true"; selecting input leaves it
\* with options, flags and correctBoolean absent and correctInput "".
C11_BooleanAndInputDefaults ==
    \A i \in QIndex :
        LET b == changeType(Questions, i, "boolean")[i]
            n == changeType(Questions, i, "input")[i]
        IN /\ b.type = "boolean"
           /\ b.options = undefined
           /\ b.correctCheckbox = undefined
           /\ b.correctInput = undefined
           /\ b.correctBoolean = Def("true")
           /\ n.type = "input"
           /\ n.options = undefined
           /\ n.correctCheckbox = undefined
           /\ n.correctBoolean = undefined
           /\ n.correctInput = Def(EmptyStr)

\* C11 witness: the type of a question with text was just switched to boolean,
\* next to a checkbox question that keeps its option.
C11_Witness ==
    /\ lastOp = "handleTypeChange"
    /\ Len(Questions) = 2
    /\ Questions[1].type = "checkbox"
    /\ optionCount(Questions[1]) = 1
    /\ Questions[2] = [text |-> StrA, type |-> "boolean", options |-> undefined,
                       correctBoolean |-> Def("true"), correctInput |-> undefined,
                       correctCheckbox |-> undefined]

\* C12: selecting checkbox clears correctBoolean and correctInput, keeps the
\* prior options when there is at least one and seeds [""] otherwise, and sets
\* one flag per seeded option: the flag stored at that index before, or false.
C12_CheckboxSeeding ==
    \A i \in QIndex :
        LET q == Questions[i]
            c == changeType(Questions, i, "checkbox")[i]
            seeded == IF optionCount(q) >= 1 THEN Val(q.options) ELSE <<EmptyStr>>
        IN /\ c.type = "checkbox"
           /\ c.correctBoolean = undefined
           /\ c.correctInput = undefined
           /\ c.options = Def(seeded)
           /\ IsDef(c.correctCheckbox)
           /\ Len(Val(c.correctCheckbox)) = Len(seeded)
           /\ \A k \in 1..Len(seeded) :
                 Val(c.correctCheckbox)[k] =
                     IF k <= flagCount(q) THEN Val(q.correctCheckbox)[k] ELSE FALSE

\* C12 witness: checkbox was just selected for a question that kept two
\* options and a true flag from before (its type had been set to "Select type").
C12_Witness ==
    /\ lastOp = "handleTypeChange"
    /\ Len(Questions) = 1
    /\ Questions[1].type = "checkbox"
    /\ Questions[1].options = Def(<<EmptyStr, StrA>>)
    /\ Questions[1].correctCheckbox = Def(<<FALSE, TRUE>>)

\* C13: a type change keeps the title, the number and order of the questions,
\* every other question and the text of the question changed.
C13_TypeChangeFrame ==
    [][lastOp' = "handleTypeChange" =>
          /\ draft'.title = draft.title
          /\ Len(draft'.questions) = Len(draft.questions)
          /\ \E i \in QIndex :
                /\ draft'.questions[i].text = draft.questions[i].text
                /\ \A j \in QIndex \ {i} : draft'.questions[j] = draft.questions[j]]_vars

\* C13 witness: the second of two questions was just switched to checkbox; the
\* title, both texts and the first question's expected answer are in place.
C13_Witness ==
    /\ lastOp = "handleTypeChange"
    /\ draft.title = StrA
    /\ Len(Questions) = 2
    /\ Questions[1].text = StrA
    /\ Questions[1].correctInput = Def(StrA)
    /\ Questions[2].text = StrA
    /\ Questions[2].type = "checkbox"

\* the list s without its o-th element, the others in their order
without(s, o) == [k \in 1..(Len(s) - 1) |-> IF k < o THEN s[k] ELSE s[k + 1]]

\* C14: removing option o of a checkbox question removes the o-th element of
\* both the options and the flags, the others keeping order and pairing; when
\* no option is left both are stored as absent.  (Applied to the question as
\* it is and with one more option, so that a middle option is removed too.)
C14_RemoveOptionBothLists ==
    \A i \in QIndex :
        Questions[i].type = "checkbox" =>
            \A qs \in {Questions, addOption(Questions, i)} :
                \A o \in 1..optionCount(qs[i]) :
                    LET r == removeOption(qs, i, o)[i]
                    IN IF optionCount(qs[i]) = 1
                       THEN r.options = undefined /\ r.correctCheckbox = undefined
                       ELSE /\ r.options = Def(without(Val(qs[i].options), o))
                            /\ r.correctCheckbox =
                                   Def(without(Val(qs[i].correctCheckbox), o))

\* C14 witness: the first of two options was just removed; the second option
\* is left with its own flag.
C14_Witness ==
    /\ lastOp = "removeOption"
    /\ Len(Questions) = 1
    /\ Questions[1].type = "checkbox"
    /\ Questions[1].options = Def(<<StrA>>)
    /\ Questions[1].correctCheckbox = Def(<<TRUE>>)

\* C15: adding an option appends one "" option and one false flag at the end
\* (absent lists counting as empty) and changes nothing else: the options and
\* flags before it, the other fields of the question, every other question.
C15_AddOptionFrame ==
    \A i \in QIndex :
        LET q == Questions[i]
            r == addOption(Questions, i)
        IN /\ Len(r) = Len(Questions)
           /\ r[i].options = Def(OrElse(q.options, <<>>) \o <<EmptyStr>>)
           /\ r[i].correctCheckbox = Def(OrElse(q.correctCheckbox, <<>>) \o <<FALSE>>)
           /\ r[i].text = q.text
           /\ r[i].type = q.type
           /\ r[i].correctBoolean = q.correctBoolean
           /\ r[i].correctInput = q.correctInput
           /\ \A j \in QIndex \ {i} : r[j] = Questions[j]

\* C15 witness: an option was just added after a flagged one, in the second
\* of two questions.
C15_Witness ==
    /\ lastOp = "addOption"
    /\ Len(Questions) = 2
    /\ Questions[1].text = StrA
    /\ Questions[2].type = "checkbox"
    /\ Questions[2].options = Def(<<StrA, EmptyStr>>)
    /\ Questions[2].correctCheckbox = Def(<<TRUE, FALSE>>)

\* the question a new draft starts with and 'Add question' adds
inputQuestion ==
    [text |-> EmptyStr, type |-> "input", options |-> undefined,
     correctBoolean |-> undefined, correctInput |-> Def(EmptyStr),
     correctCheckbox |-> undefined]

\* C16: a new draft has an empty title and exactly one input question with
\* empty text and empty correctInput; 'Add question' is always possible (up to
\* the bound of the model) and appends one such question at the end, the
\* questions before it and the title unchanged.
C16_NewDraftAndAddQuestion ==
    /\ draft = [title |-> EmptyStr, questions |-> <<inputQuestion>>]
    /\ [](Len(Questions) < MaxQuestions => ENABLED AddQuestion)
    /\ [][lastOp' = "addQuestion" =>
             /\ draft'.title = draft.title
             /\ draft'.questions = draft.questions \o <<inputQuestion>>]_vars

\* C16 witness: a question was just added after an edited one, under a title.
C16_Witness ==
    /\ lastOp = "addQuestion"
    /\ draft.title = StrA
    /\ Len(Questions) = 2
    /\ Questions[1].text = StrA
    /\ Questions[1].type = "boolean"
    /\ Questions[2] = inputQuestion

(***************************************************************************)
(* Properties of a submit attempt and its outcome.                         *)
(***************************************************************************)
\* a step that issues a createQuiz request
sends == isSubmitting' /\ ~isSubmitting

\* C17: a submit attempt yields either a set of validation errors or a
\* createQuiz request, never both; the request carries the payload built from
\* the parsed draft and is issued only when the draft has no errors; an
\* invalid draft sends no request.
C17_ErrorsOrRequest ==
    [][lastOp' = "handleSubmit" =>
          /\ (errors' # {}) # sends
          /\ sends => /\ validate(draft) = {}
                      /\ request' = Def(submission(parsedData(draft)))
          /\ validate(draft) # {} => /\ errors' = validate(draft)
                                     /\ ~sends
                                     /\ request' = request]_vars

\* C17 witness: a submit attempt on a valid draft of two questions has its
\* request in flight and no validation error.
C17_Witness ==
    /\ lastOp = "handleSubmit"
    /\ isSubmitting
    /\ errors = {}
    /\ IsDef(request)
    /\ Len(draft.questions) = 2
    /\ draft.questions[1].type = "checkbox"
    /\ draft.questions[2].type = "input"

\* C18: after a valid draft is submitted, success navigates to /quizzes with
\* no submission error shown; failure stores one message as the submission
\* error, does not navigate and leaves the draft unchanged; starting a new
\* submit attempt clears the previous submission error.
C18_SubmitOutcome ==
    [][/\ lastOp' = "createQuizOk" =>
             /\ route' = "/quizzes"
             /\ submissionError' = undefined
       /\ lastOp' = "createQuizFail" =>
             /\ IsDef(submissionError')
             /\ route' = route
             /\ draft' = draft
       /\ lastOp' = "handleSubmit" => submissionError' = undefined]_vars

(***************************************************************************)
(* Properties of the quiz list page (checked under SpecList).              *)
(***************************************************************************)
\* C19: under any interleaving of delete clicks and responses, no second
\* delete request for a quiz id is issued before the first one has completed:
\* at most one request per id is in flight.
C19_OneDeleteInFlightPerQuiz ==
    \A id \in QuizIds : pending[id] <= 1

\* C20: the displayed list changes only when a delete request succeeds, and
\* then exactly the quiz of that request is removed, the others kept in
\* order; when a delete request fails the list is unchanged and an error
\* message is set; in both cases deletingId is reset to null.
C20_DeleteOutcome ==
    [][/\ quizzes' # quizzes => lastOp' = "deleteOk"
       /\ lastOp' = "deleteOk" =>
             /\ deletingId' = undefined
             /\ \E id \in QuizIds :
                   LET others(quiz) == quiz # id
                   IN /\ pending[id] > 0
                      /\ pending'[id] = pending[id] - 1
                      /\ quizzes' = SelectSeq(quizzes, others)
       /\ lastOp' = "deleteFail" =>
             /\ quizzes' = quizzes
             /\ IsDef(listError')
             /\ deletingId' = undefined]_vars

\* C20 witness: the delete of the middle one of three quizzes just succeeded;
\* the other two are displayed in their order.
C20_Witness ==
    /\ lastOp = "deleteOk"
    /\ quizzes = <<3, 1>>
    /\ pending = [id \in QuizIds |-> 0]
    /\ deletingId = undefined
    /\ listError = undefined

(***************************************************************************)
(* The boolean answer in the editor (checked under Spec).                  *)
(***************************************************************************)
\* C21: in every state the editor reaches, every boolean question has
\* correctBoolean "true" or "false", and validation of the draft never
\* reports 'Select the correct answer'.
C21_BooleanAlwaysAnswered ==
    /\ \A i \in QIndex :
          Questions[i].type = "boolean" =>
              Questions[i].correctBoolean \in {Def("true"), Def("false")}
    /\ \A issue \in validate(draft) : issue.message # "Select the correct answer"

\* C21 witness: of two boolean questions the second was just switched to
\* boolean and the first has False selected.
C21_Witness ==
    /\ lastOp = "handleTypeChange"
    /\ Len(Questions) = 2
    /\ Questions[1].type = "boolean"
    /\ Questions[1].correctBoolean = Def("false")
    /\ Questions[2].type = "boolean"
    /\ Questions[2].correctBoolean = Def("true")

(***************************************************************************)
(* The submitted quiz on the details page (checked under SpecSubmit).      *)
(***************************************************************************)
\* C22: for every checkbox question of a submitted draft, the details page,
\* given the payload as it was sent, marks the option at index j as correct
\* if and only if the draft's flag at index j is true, also when two options
\* have the same text after trimming.
C22_DetailMarksFlaggedOptions ==
    IsDef(request) =>
        \A n \in DraftIndex :
            draft.questions[n].type = "checkbox" =>
                \A j \in 1..Len(payload.questions[n].options) :
                    isCorrect(payload.questions[n], j)
                        <=> Val(draft.questions[n].correctCheckbox)[j]

====
